---- MODULE Spec2Model ----
(***************************************************************************)
(* A model of the bulk image downloader's server side:                     *)
(*   POST /api/process  (src/src/app/api/process/route.ts)                 *)
(*   GET  /api/download (src/src/app/api/download/route.ts)                *)
(*                                                                         *)
(* The POST handler is an async function: it runs atomically from one      *)
(* await to the next.  Each action below resumes the handler from the      *)
(* await named by pc and runs it up to the next await.  Strings are        *)
(* sequences of one-character strings, paths are sequences of segments.    *)
(***************************************************************************)
EXTENDS Integers, Sequences, FiniteSets, TLC

\* ------------------------------------------------------------------ bounds
MaxRows == 2        \* rows of an uploaded table
MaxUrls == 2        \* candidate locators the search surface yields
MaxIdLen == 2       \* characters of a GET identifier
MaxGets == 2        \* GET requests recorded in the log
MaxTicks == 1       \* milliseconds the clock is seen to advance between timers

\* ------------------------------------------------------- program constants
SliceLimit == 5     \* imageUrls.slice(0, 5)
MinBytes == 1000    \* buffer.length < 1000
PauseMs == 500      \* setTimeout(resolve, 500)

\* ------------------------------------------------------------------ strings
Digit(d) == <<"0", "1", "2", "3", "4", "5", "6", "7", "8", "9">>[d + 1]

RECURSIVE DigitsOf(_)
\* Number.prototype.toString for a non-negative integer
DigitsOf(n) == IF n < 10 THEN <<Digit(n)>> ELSE DigitsOf(n \div 10) \o <<Digit(n % 10)>>

Alnum == {"0", "1", "5", "a", "b", "c", "d", "e", "g", "i", "m", "s", "u", "n", "f", "x", "z", "p"}

Undefined == <<"u", "n", "d", "e", "f", "i", "n", "e", "d">>

Absent == [t |-> "absent", n |-> 0, s |-> <<>>]
Num(k) == [t |-> "num", n |-> k, s |-> <<>>]
Str(cs) == [t |-> "str", n |-> 0, s |-> cs]

\* String(v) for a cell value: a number, a string, or a missing key
String(v) == CASE v.t = "num" -> DigitsOf(v.n)
               [] v.t = "str" -> v.s
               [] OTHER -> Undefined

\* s.replace(/[/\\]/g, " ")
ReplaceSlashes(s) == [k \in 1..Len(s) |-> IF s[k] \in {"/", "\\"} THEN " " ELSE s[k]]

\* fileId.replace(/[^a-zA-Z0-9]/g, "")
IsAlnum(c) == c \in Alnum
Sanitize(s) == SelectSeq(s, IsAlnum)

\* -------------------------------------------------------------------- paths
Seps(platform) == IF platform = "win32" THEN {"/", "\\"} ELSE {"/"}

RECURSIVE Split(_, _, _)
\* the segments of s between separators; cur is the segment being read
Split(s, seps, cur) ==
    IF s = <<>> THEN <<cur>>
    ELSE IF Head(s) \in seps THEN <<cur>> \o Split(Tail(s), seps, <<>>)
    ELSE Split(Tail(s), seps, Append(cur, Head(s)))

RECURSIVE Normalize(_, _)
\* path.normalize over segments: drops "" and ".", ".." pops a segment
Normalize(base, segs) ==
    IF segs = <<>> THEN base
    ELSE LET h == Head(segs) IN
         IF h = <<>> \/ h = <<".">> THEN Normalize(base, Tail(segs))
         ELSE IF h = <<".", ".">>
              THEN Normalize(IF base = <<>> THEN base ELSE SubSeq(base, 1, Len(base) - 1),
                             Tail(segs))
         ELSE Normalize(Append(base, h), Tail(segs))

\* path.join(dir, name)
Join(platform, dir, name) == Normalize(dir, Split(name, Seps(platform), <<>>))

\* os.tmpdir()
TmpDir == << <<"t", "m", "p">> >>

\* directory and file names, the long literals of the source shortened:
\* "image-downloader-zips", "image-download-", "images-", ".zip"
ZipDirName == <<"z", "i", "p", "s">>
WorkPrefix == <<"i", "m", "g", "-">>
ZipPrefix == <<"i", "m", "a", "g", "e", "s", "-">>
ZipSuffix == <<".", "z", "i", "p">>

\* path.join(os.tmpdir(), `image-download-${Date.now()}`)
TempDirOf(platform, t) == Join(platform, TmpDir, WorkPrefix \o DigitsOf(t))

\* path.join(os.tmpdir(), "image-downloader-zips")
ZipDir(platform) == Join(platform, TmpDir, ZipDirName)

\* path.join(zipDir, `images-${id}.zip`)
ZipPath(platform, id) == Join(platform, ZipDir(platform), ZipPrefix \o id \o ZipSuffix)

Parent(p) == SubSeq(p, 1, Len(p) - 1)
Base(p) == p[Len(p)]

\* ------------------------------------------------------------------ uploads
\* the rows XLSX.utils.sheet_to_json can yield: a key is absent for an empty cell
RowSet == { [id |-> Num(1), image_name |-> Str(<<"c", "/", "d">>)],
            [id |-> Str(<<"b">>), image_name |-> Absent],
            [id |-> Absent, image_name |-> Str(<<"^">>)] }

RECURSIVE SeqsUpTo(_, _)
\* all sequences over S of length at most n
SeqsUpTo(S, n) ==
    IF n = 0 THEN {<<>>}
    ELSE LET shorter == SeqsUpTo(S, n - 1) IN
         shorter \cup {Append(q, x) : q \in {z \in shorter : Len(z) = n - 1}, x \in S}

Tables == SeqsUpTo(RowSet, MaxRows)

\* a request body: not multipart, no "file" field, an unreadable workbook, a table
Uploads == { [kind |-> k, data |-> <<>>] : k \in {"badform", "nofile", "corrupt"} }
           \cup { [kind |-> "table", data |-> d] : d \in Tables }

NoUpload == [kind |-> "nofile", data |-> <<>>]

\* ------------------------------------------------------------------- frames
NoFrame == [type |-> "none", items |-> <<>>, downloadUrl |-> <<>>, message |-> ""]

\* JSON.stringify({ type: "progress", items })
ProgressFrame(items) == [type |-> "progress", items |-> items, downloadUrl |-> <<>>, message |-> ""]

\* JSON.stringify({ type: "complete", downloadUrl })
CompleteFrame(url) == [type |-> "complete", items |-> <<>>, downloadUrl |-> url, message |-> ""]

\* JSON.stringify({ type: "error", message })
ErrorFrame(msg) == [type |-> "error", items |-> <<>>, downloadUrl |-> <<>>, message |-> msg]

\* `/api/download?id=${fileId}`
DownloadUrl(fileId) == <<"?", "i", "d", "=">> \o fileId

\* -------------------------------------------------------------------- state
Reqs == {1, 2}

VARIABLES
    req,        \* req[r]: the POST request r: its body, its handler's locals and position
    platform,   \* "posix" or "win32": decides the path separators
    now,        \* Date.now()
    dirs,       \* the directories that exist
    files,      \* the files that exist: path -> content
    getLog,     \* the GET requests served so far, oldest first
    lastGet     \* the latest GET: its parameter and the paths it tested, read, deleted

vars == <<req, platform, now, dirs, files, getLog, lastGet>>

NoPath == <<>>

InitReq(up) ==
    [ upload |-> up,            \* the request body
      pc |-> "idle",            \* the await the handler is suspended at
      writer |-> "open",        \* stream.writable: "open", "closed" or "errored"
      closeCalls |-> 0,         \* invocations of writer.close()
      closeRejected |-> FALSE,  \* the close() being awaited rejects
      badClose |-> 0,           \* close() calls on a writer already closed
      inflight |-> NoFrame,     \* the frame of the writer.write() being awaited
      frames |-> <<>>,          \* the frames written to the stream
      progressItems |-> <<>>,
      i |-> 0,                  \* the loop index, 1-based
      imageUrls |-> <<>>,
      u |-> 0,                  \* position in imageUrls of the url being fetched
      fetched |-> <<>>,         \* the urls passed to downloadImage for row i
      nSearch |-> 0,            \* calls of searchBingImages
      nFetch |-> 0,             \* calls of downloadImage
      tempDir |-> NoPath,
      fileId |-> <<>>,
      finalZipPath |-> NoPath,
      entries |-> {},           \* the names handed to archive.file
      wake |-> 0,               \* when the pause's timer fires
      hits |-> -1,              \* candidates searchBingImages returned for row i
      viable |-> <<>>,          \* for each url of fetched: did downloadImage yield a result
      nPause |-> 0,             \* pauses the loop has waited out
      rmTried |-> FALSE,        \* fs.rmSync(tempDir) was called
      unhandled |-> FALSE ]     \* the handler's promise rejected

\* ------------------------------------------------------------------- writer
\* writer.write(chunk) resolves only on a writable stream
WriteOk(q) == q.writer = "open"

\* the reason a rejected write carries
WriteError(q) == IF q.writer = "closed" THEN "stream closed" ELSE "stream aborted"

\* lines 124-140: sendProgress / sendComplete / sendError call writer.write and await it
CallSend(q, frame, at) == [q EXCEPT !.inflight = frame, !.pc = at]

\* the awaited write resolved: the frame is on the stream
Delivered(q) == [q EXCEPT !.frames = Append(@, q.inflight), !.inflight = NoFrame]

\* writer.close(): rejects on a stream that is closed, closing or errored
CallClose(q, at) ==
    [q EXCEPT !.closeCalls = @ + 1,
              !.closeRejected = (q.writer # "open"),
              !.badClose = IF q.writer = "closed" THEN @ + 1 ELSE @,
              !.writer = IF @ = "open" THEN "closed" ELSE @,
              !.pc = at]

\* lines 273-276: catch (err) { await sendError(err.message) }
EnterCatch(q, msg) == CallSend(q, ErrorFrame(msg), "sendErrorCatch")

\* lines 277-279: finally { await writer.close() }
EnterFinally(q) == CallClose([q EXCEPT !.inflight = NoFrame], "closeFinally")

Set(r, q) == req' = [req EXCEPT ![r] = q]

\* --------------------------------------------------------------- filesystem
Image(url) == [kind |-> "img", url |-> url, entries |-> {}, complete |-> TRUE]
\* what a write that failed midway (ENOSPC, EIO) leaves: the file opened, not filled
Partial == [kind |-> "img", url |-> 0, entries |-> {}, complete |-> FALSE]
Zip(entries, complete) == [kind |-> "zip", url |-> 0, entries |-> entries, complete |-> complete]

PutFile(fs, p, c) == [x \in DOMAIN fs \cup {p} |-> IF x = p THEN c ELSE fs[x]]
RemoveFiles(fs, gone) == [x \in DOMAIN fs \ gone |-> fs[x]]

\* p is d or lies beneath d
Under(p, d) == Len(p) >= Len(d) /\ SubSeq(p, 1, Len(d)) = d

\* fs.readdirSync(d): the names of the files directly in d
ReadDir(fs, d) == {Base(p) : p \in {x \in DOMAIN fs : Parent(x) = d}}

\* ------------------------------------------------------- resolver, fetcher
\* the locators the search page yields, in the page's order
Found == {[k \in 1..n |-> n + 1 - k] : n \in 0..MaxUrls}

\* lines 64-73: imageUrls.slice(0, 5)
Slice(urls) == SubSeq(urls, 1, IF Len(urls) < SliceLimit THEN Len(urls) ELSE SliceLimit)

\* the candidates taken last first
CandidateReversed(urls, k) == urls[Len(urls) + 1 - k]

\* line 206: for (const url of imageUrls) takes the candidates first to last
Candidate(urls, k) == urls[k]

\* line 23: encodeURIComponent(query) throws URIError on a lone surrogate ("^")
SearchThrows(query) == \E k \in 1..Len(query) : query[k] = "^"

\* a content type, as the set of the keywords it includes
ContentTypes == {{}, {"png"}}

\* what axios.get(url) yields: a transport failure, or a body with a content type
Responses == {[ok |-> FALSE, ctype |-> {}, len |-> 0]}
             \cup {[ok |-> TRUE, ctype |-> c, len |-> l] :
                     c \in ContentTypes, l \in {MinBytes - 1, MinBytes}}

\* lines 95-106
Extension(ctype) ==
    IF "png" \in ctype THEN <<".", "p", "n", "g">>
    ELSE IF "gif" \in ctype THEN <<".", "g", "i", "f">>
    ELSE IF "webp" \in ctype THEN <<".", "w", "e", "b", "p">>
    ELSE <<".", "j", "p", "g">>

\* lines 80-117: downloadImage yields a result or null, and never throws
Viable(resp) == resp.ok /\ ~(resp.len < MinBytes)

\* ------------------------------------------------------------- row statuses
\* the items built in reverse row order
InitialItemsReversed(data) ==
    [k \in 1..Len(data) |->
        [id |-> String(data[Len(data) + 1 - k].id),
         image_name |-> String(data[Len(data) + 1 - k].image_name),
         status |-> "pending", error |-> ""]]

\* lines 174-178: data.map(row => ({ id, image_name, status: "pending" }))
InitialItems(data) ==
    [k \in 1..Len(data) |->
        [id |-> String(data[k].id), image_name |-> String(data[k].image_name),
         status |-> "pending", error |-> ""]]

\* the assignment made to the first row instead of row i
SetStatusFirst(q, st, err) ==
    [q EXCEPT !.progressItems[1] = [@ EXCEPT !.status = st,
                                             !.error = IF err = "" THEN @ ELSE err]]

\* progressItems[i].status = st; progressItems[i].error = err
SetStatus(q, st, err) ==
    [q EXCEPT !.progressItems[q.i] = [@ EXCEPT !.status = st,
                                               !.error = IF err = "" THEN @ ELSE err]]

\* ------------------------------------------------------ POST /api/process
\* a validation that tests the "id" column alone
ValidationErrorIdOnly(data) ==
    IF Len(data) = 0 THEN "Excel file is empty"
    ELSE IF data[1].id.t = "absent"
         THEN "Excel file must have \"id\" and \"image_name\" columns"
    ELSE ""

\* lines 159-172: the message of the validation that fails, "" when none does
ValidationError(data) ==
    IF Len(data) = 0 THEN "Excel file is empty"
    ELSE IF data[1].id.t = "absent" \/ data[1].image_name.t = "absent"
         THEN "Excel file must have \"id\" and \"image_name\" columns"
    ELSE ""

\* lines 187-189
RowId(q) == String(q.upload.data[q.i].id)
ImageName(q) == ReplaceSlashes(String(q.upload.data[q.i].image_name))

\* a loop that steps over every other row
NextIndexSkip(k) == k + 2

\* line 186: i++
NextIndex(k) == k + 1

\* the frame serialized before the status is assigned
EnterRowStale(q) ==
    CallSend(SetStatus(q, "downloading", ""), ProgressFrame(q.progressItems), "sendDownloading")

\* lines 191-192: progressItems[i].status = "downloading"; await sendProgress(...)
EnterRow(q) ==
    LET q1 == SetStatus(q, "downloading", "")
    IN  CallSend(q1, ProgressFrame(q1.progressItems), "sendDownloading")

\* a row's catch that forgets the status
RowCatchNoStatus(q, msg) == CallSend(q, ProgressFrame(q.progressItems), "sendResult")

\* lines 225-231: the row's catch, then the row's closing sendProgress
RowCatch(q, msg) ==
    LET q1 == SetStatus(q, "failed", msg)
    IN  CallSend(q1, ProgressFrame(q1.progressItems), "sendResult")

\* lines 119-144: the handler starts and suspends at request.formData()
Start(r) ==
    /\ req[r].pc = "idle"
    /\ Set(r, [req[r] EXCEPT !.pc = "formData"])
    /\ UNCHANGED <<platform, now, dirs, files, getLog, lastGet>>

\* lines 144-153
ResumeFormData(r) ==
    LET q == req[r] IN
    /\ q.pc = "formData"
    /\ Set(r, CASE q.upload.kind = "badform" -> EnterCatch(q, "Failed to parse body")
                [] q.upload.kind = "nofile" ->
                       CallSend(q, ErrorFrame("No file uploaded"), "sendErrorEarly")
                [] OTHER -> [q EXCEPT !.pc = "arrayBuffer"])
    /\ UNCHANGED <<platform, now, dirs, files, getLog, lastGet>>

\* lines 153-180
ResumeArrayBuffer(r) ==
    LET q == req[r]
        data == q.upload.data
    IN
    /\ q.pc = "arrayBuffer"
    /\ Set(r, IF q.upload.kind = "corrupt" THEN EnterCatch(q, "Unsupported file")
              ELSE IF ValidationError(data) # ""
                   THEN CallSend(q, ErrorFrame(ValidationError(data)), "sendErrorEarly")
              ELSE LET q1 == [q EXCEPT !.progressItems = InitialItems(data)]
                   IN  CallSend(q1, ProgressFrame(q1.progressItems), "sendInitial"))
    /\ UNCHANGED <<platform, now, dirs, files, getLog, lastGet>>

\* lines 148-149, 160-161, 167-170: the error frame is written, writer.close() is called
ResumeSendErrorEarly(r) ==
    LET q == req[r] IN
    /\ q.pc = "sendErrorEarly"
    /\ Set(r, IF WriteOk(q) THEN CallClose(Delivered(q), "closeEarly")
              ELSE EnterCatch(q, WriteError(q)))
    /\ UNCHANGED <<platform, now, dirs, files, getLog, lastGet>>

\* lines 149-150, 161-162, 170-171: return, which runs the finally block
ResumeCloseEarly(r) ==
    LET q == req[r] IN
    /\ q.pc = "closeEarly"
    /\ Set(r, IF q.closeRejected THEN EnterCatch(q, "Invalid state")
              ELSE EnterFinally(q))
    /\ UNCHANGED <<platform, now, dirs, files, getLog, lastGet>>

\* lines 180-192: the first frame is written, the working directory is made,
\* the loop is entered (a validated table has a first row)
ResumeSendInitial(r) ==
    LET q == req[r]
        tempDir == TempDirOf(platform, now)
    IN
    /\ q.pc = "sendInitial"
    /\ IF WriteOk(q)
       THEN \E made \in BOOLEAN :    \* fs.mkdirSync can fail
              IF made
              THEN /\ dirs' = dirs \cup {tempDir}
                   /\ Set(r, EnterRow([Delivered(q) EXCEPT !.tempDir = tempDir, !.i = 1]))
              ELSE /\ dirs' = dirs
                   /\ Set(r, EnterCatch(Delivered(q), "EACCES"))
       ELSE /\ dirs' = dirs
            /\ Set(r, EnterCatch(q, WriteError(q)))
    /\ UNCHANGED <<platform, now, files, getLog, lastGet>>

\* lines 192-196: the "downloading" frame is written, the search is called
ResumeSendDownloading(r) ==
    LET q == req[r] IN
    /\ q.pc = "sendDownloading"
    /\ Set(r, IF WriteOk(q)
              THEN [Delivered(q) EXCEPT !.pc = "search", !.nSearch = @ + 1]
              ELSE EnterCatch(q, WriteError(q)))
    /\ UNCHANGED <<platform, now, dirs, files, getLog, lastGet>>

\* lines 196-207 and 225-231: the search returns or throws
ResumeSearch(r) ==
    LET q == req[r] IN
    /\ q.pc = "search"
    /\ IF SearchThrows(ImageName(q))
       THEN Set(r, RowCatch(q, "URI malformed"))
       ELSE \E found \in Found :
              LET imageUrls == Slice(found) IN
              IF Len(imageUrls) = 0
              THEN LET q1 == SetStatus([q EXCEPT !.hits = 0], "failed", "No images found")
                   IN  Set(r, CallSend(q1, ProgressFrame(q1.progressItems), "sendNoImages"))
              ELSE Set(r, [q EXCEPT !.imageUrls = imageUrls, !.u = 1,
                                    !.hits = Len(imageUrls),
                                    !.fetched = <<Candidate(imageUrls, 1)>>, !.nFetch = @ + 1,
                                    !.pc = "download"])
    /\ UNCHANGED <<platform, now, dirs, files, getLog, lastGet>>

\* lines 236-256: the archive is set up once the loop is over, at clock reading t:
\* the output file is created, the working directory is listed, the archive finalized
ZipInit(r, q, t) ==
    LET fileId == DigitsOf(t)
        zipDir == ZipDir(platform)
        finalZipPath == ZipPath(platform, fileId)
        q1 == [q EXCEPT !.fileId = fileId, !.finalZipPath = finalZipPath]
    IN
    /\ dirs' = dirs \cup {zipDir}
    /\ files' = PutFile(files, finalZipPath, Zip({}, FALSE))
    /\ IF q.tempDir \in dirs
       THEN Set(r, [q1 EXCEPT !.entries = ReadDir(files, q.tempDir), !.pc = "archive"])
       ELSE Set(r, EnterCatch(q1, "ENOENT"))

\* line 186: the loop test, after which a row is started or the loop is left
Loop(r, q, t) ==
    LET q1 == [q EXCEPT !.imageUrls = <<>>, !.u = 0, !.fetched = <<>>, !.viable = <<>>,
                        !.hits = -1]
    IN
    IF q1.i <= Len(q1.upload.data)
    THEN Set(r, EnterRow(q1)) /\ UNCHANGED <<dirs, files>>
    ELSE ZipInit(r, q1, t)

\* lines 201-202 and 225-231: the "No images found" frame is written; continue
ResumeSendNoImages(r) ==
    LET q == req[r] IN
    /\ q.pc = "sendNoImages"
    /\ IF WriteOk(q)
       THEN Loop(r, [Delivered(q) EXCEPT !.i = NextIndex(@)], now)
       ELSE Set(r, RowCatch(q, WriteError(q))) /\ UNCHANGED <<dirs, files>>
    /\ UNCHANGED <<platform, now, getLog, lastGet>>

\* lines 209-212
FilePath(q, ext) == Join(platform, q.tempDir, RowId(q) \o ext)

\* fs.writeFileSync(p, ...) throws when p's directory is missing or p is a directory
CanWrite(p) == Parent(p) \in dirs /\ p \notin dirs

\* lines 206-231: a fetch returns; the asset is written, the next candidate is
\* fetched, or the candidates are exhausted
ResumeDownload(r) ==
    LET q == [req[r] EXCEPT !.viable = Append(@, FALSE)]
        qv == [req[r] EXCEPT !.viable = Append(@, TRUE)]
    IN
    /\ q.pc = "download"
    /\ \E resp \in Responses :
         IF Viable(resp)
         THEN LET filePath == FilePath(qv, Extension(resp.ctype)) IN
              \* fs.writeFileSync can fail, before or after it has opened the file
              \E stored \in {"written", "refused", "cut"} :
                IF stored = "written" /\ CanWrite(filePath)
                THEN LET q1 == SetStatus(qv, "success", "") IN
                     /\ files' = PutFile(files, filePath, Image(Candidate(qv.imageUrls, qv.u)))
                     /\ Set(r, CallSend(q1, ProgressFrame(q1.progressItems), "sendResult"))
                ELSE IF stored = "cut" /\ CanWrite(filePath)
                THEN /\ files' = PutFile(files, filePath, Partial)
                     /\ Set(r, RowCatch(qv, "ENOSPC"))
                ELSE /\ files' = files
                     /\ Set(r, RowCatch(qv, IF CanWrite(filePath) THEN "EACCES" ELSE "ENOENT"))
         ELSE /\ files' = files
              /\ IF q.u < Len(q.imageUrls)
                 THEN Set(r, [q EXCEPT !.u = @ + 1,
                                       !.fetched = Append(@, Candidate(q.imageUrls, q.u + 1)),
                                       !.nFetch = @ + 1])
                 ELSE LET q1 == SetStatus(q, "failed", "Failed to download image") IN
                      Set(r, CallSend(q1, ProgressFrame(q1.progressItems), "sendResult"))
    /\ UNCHANGED <<platform, now, dirs, getLog, lastGet>>

\* lines 231-232: the row's closing frame is written, the pause's timer is set
ResumeSendResult(r) ==
    LET q == req[r] IN
    /\ q.pc = "sendResult"
    /\ Set(r, IF WriteOk(q)
              THEN [Delivered(q) EXCEPT !.pc = "pause", !.wake = now + PauseMs]
              ELSE EnterCatch(q, WriteError(q)))
    /\ UNCHANGED <<platform, now, dirs, files, getLog, lastGet>>

\* lines 232-233: the timer fired, no sooner than PauseMs after it was set
ResumePause(r) ==
    LET q == req[r]
        t == IF now < q.wake THEN q.wake ELSE now
    IN
    /\ q.pc = "pause"
    /\ now' = t
    /\ Loop(r, [q EXCEPT !.i = NextIndex(@), !.nPause = @ + 1], t)
    /\ UNCHANGED <<platform, getLog, lastGet>>

\* lines 241-256: how the archive's construction ends. The output's "close"
\* resolves the promise and the archiver's "error" rejects it; an "error" of
\* the output stream has no listener (line 246 listens to the archiver only):
\* it is thrown out of the emitter before "close" is emitted, so the promise
\* never settles
ArchiveOutcomes == {"close", "archive error", "output error"}

\* lines 244-265: the output closed or the archive failed; the archive file is tested
ResumeArchive(r) ==
    LET q == req[r] IN
    /\ q.pc = "archive"
    /\ \E outcome \in ArchiveOutcomes :
         IF outcome = "close"
         THEN /\ files' = IF q.finalZipPath \in DOMAIN files
                          THEN PutFile(files, q.finalZipPath, Zip(q.entries, TRUE))
                          ELSE files
              /\ Set(r, IF q.finalZipPath \in DOMAIN files
                        THEN CallSend(q, CompleteFrame(DownloadUrl(q.fileId)), "sendFinal")
                        ELSE CallSend(q, ErrorFrame("Failed to create ZIP file"), "sendFinal"))
         ELSE IF outcome = "archive error"
         THEN /\ files' = files
              /\ Set(r, EnterCatch(q, "archive error"))
         ELSE /\ files' = files
              /\ Set(r, [q EXCEPT !.pc = "stalled"])
    /\ UNCHANGED <<platform, now, dirs, getLog, lastGet>>

\* fs.rmSync(d, { recursive: true, force: true })
DirsWithout(d) == {x \in dirs : ~Under(x, d)}
FilesWithout(d) == RemoveFiles(files, {x \in DOMAIN files : Under(x, d)})

\* a cleanup whose failure reaches the outer catch block
CleanupThrows(q, removed) == IF removed THEN EnterFinally(q) ELSE EnterCatch(q, "EPERM")

\* lines 267-279: a failed removal is swallowed; the finally block follows either way
Cleanup(q, removed) == EnterFinally(q)

\* lines 262-272: the terminal frame is written, the working directory is removed
ResumeSendFinal(r) ==
    LET q == req[r] IN
    /\ q.pc = "sendFinal"
    /\ IF WriteOk(q)
       THEN \E removed \in BOOLEAN :    \* a failing fs.rmSync is ignored
              /\ dirs' = IF removed THEN DirsWithout(q.tempDir) ELSE dirs
              /\ files' = IF removed THEN FilesWithout(q.tempDir) ELSE files
              /\ Set(r, Cleanup([Delivered(q) EXCEPT !.rmTried = TRUE], removed))
       ELSE /\ Set(r, EnterCatch(q, WriteError(q)))
            /\ UNCHANGED <<dirs, files>>
    /\ UNCHANGED <<platform, now, getLog, lastGet>>

\* lines 273-278: the catch block's frame is written, or its write throws
ResumeSendErrorCatch(r) ==
    LET q == req[r] IN
    /\ q.pc = "sendErrorCatch"
    /\ Set(r, IF WriteOk(q) THEN EnterFinally(Delivered(q))
              ELSE EnterFinally([q EXCEPT !.unhandled = TRUE]))
    /\ UNCHANGED <<platform, now, dirs, files, getLog, lastGet>>

\* lines 278-280: the finally block's close settles; the handler is over
ResumeCloseFinally(r) ==
    LET q == req[r] IN
    /\ q.pc = "closeFinally"
    /\ Set(r, [q EXCEPT !.pc = "done", !.unhandled = @ \/ q.closeRejected])
    /\ UNCHANGED <<platform, now, dirs, files, getLog, lastGet>>

\* the client goes away: the response body is cancelled, which errors the writable side
Disconnect(r) ==
    LET q == req[r] IN
    /\ q.pc \notin {"idle", "done"}
    /\ q.writer = "open"
    /\ Set(r, [q EXCEPT !.writer = "errored"])
    /\ UNCHANGED <<platform, now, dirs, files, getLog, lastGet>>

Step(r) ==
    \/ Start(r)
    \/ ResumeFormData(r)
    \/ ResumeArrayBuffer(r)
    \/ ResumeSendErrorEarly(r)
    \/ ResumeCloseEarly(r)
    \/ ResumeSendInitial(r)
    \/ ResumeSendDownloading(r)
    \/ ResumeSearch(r)
    \/ ResumeSendNoImages(r)
    \/ ResumeDownload(r)
    \/ ResumeSendResult(r)
    \/ ResumePause(r)
    \/ ResumeArchive(r)
    \/ ResumeSendFinal(r)
    \/ ResumeSendErrorCatch(r)
    \/ ResumeCloseFinally(r)

\* ------------------------------------------------------ GET /api/download
\* the characters of an "id" query parameter
IdChars == {"0", "/", "\\"}

\* searchParams.get("id"): null when the parameter is absent
Null == <<"null">>
GetParams == {Null} \cup SeqsUpTo(IdChars, MaxIdLen)

NoBody == [kind |-> "none", url |-> 0, entries |-> {}, complete |-> FALSE]

\* a test for null alone
MissingNullOnly(fileId) == fileId = Null

\* line 10: !fileId holds for null and for the empty string
Missing(fileId) == fileId = Null \/ fileId = <<>>

\* the identifier used unsanitized
SafeIdRaw(fileId) == fileId

\* line 15
SafeId(fileId) == Sanitize(fileId)

\* fs.existsSync(p)
Exists(p) == p \in DOMAIN files \/ p \in dirs

\* lines 6-42: the handler has no await and runs in one piece
Get(fileId) ==
    LET zipPath == ZipPath(platform, SafeId(fileId))
        param == IF fileId = Null THEN "absent"
                 ELSE IF fileId = <<>> THEN "empty"
                 ELSE IF \A k \in 1..Len(fileId) : fileId[k] \in Alnum THEN "plain"
                 ELSE "other"
        Answer(key, status, body, tested, read, deleted) ==
            /\ getLog' = Append(getLog, [key |-> key, status |-> status, body |-> body])
            /\ lastGet' = [param |-> param, tested |-> tested, read |-> read,
                           deleted |-> deleted]
    IN
    /\ Len(getLog) < MaxGets
    /\ IF Missing(fileId)
       THEN Answer(<<>>, 400, NoBody, {}, {}, {}) /\ files' = files
       ELSE IF ~Exists(zipPath)
            THEN Answer(SafeId(fileId), 404, NoBody, {zipPath}, {}, {}) /\ files' = files
       ELSE IF zipPath \in dirs    \* fs.readFileSync throws EISDIR
            THEN Answer(SafeId(fileId), 500, NoBody, {zipPath}, {zipPath}, {})
                 /\ files' = files
       ELSE \E unlinked \in BOOLEAN :    \* a failing fs.unlinkSync is ignored
              /\ files' = IF unlinked THEN RemoveFiles(files, {zipPath}) ELSE files
              /\ Answer(SafeId(fileId), 200, files[zipPath], {zipPath}, {zipPath}, {zipPath})
    /\ UNCHANGED <<req, platform, now, dirs>>

Download == \E fileId \in GetParams : Get(fileId)

NoGet == [param |-> "absent", tested |-> {}, read |-> {}, deleted |-> {}]

\* ------------------------------------------------- one request and its client
Init ==
    /\ \E up \in Uploads : req = [r \in Reqs |-> InitReq(IF r = 1 THEN up ELSE NoUpload)]
    /\ platform = "posix"
    /\ now = 0
    /\ dirs = {TmpDir}
    /\ files = <<>>
    /\ getLog = <<>>
    /\ lastGet = NoGet

Next == Step(1) \/ Disconnect(1)

Spec == Init /\ [][Next]_vars

\* --------------------------------- one request and the downloads of its archive
\* a table of one row that passes validation
RowOne == [id |-> Num(1), image_name |-> Str(<<"c", "/", "d">>)]
SmallTables == {<<RowOne>>}

InitGet ==
    /\ \E up \in {NoUpload} \cup {[kind |-> "table", data |-> d] : d \in SmallTables} :
         req = [r \in Reqs |-> InitReq(IF r = 1 THEN up ELSE NoUpload)]
    /\ platform \in {"posix", "win32"}
    /\ now = 0
    /\ dirs = {TmpDir}
    /\ files = <<>>
    /\ getLog = <<>>
    /\ lastGet = NoGet

NextGet == Step(1) \/ Download

SpecGet == InitGet /\ [][NextGet]_vars

\* ================================================================== claims
Terminal(f) == f.type \in {"complete", "error"}
Count(fs, type) == Cardinality({k \in 1..Len(fs) : fs[k].type = type})
Statuses(items) == [k \in 1..Len(items) |-> items[k].status]
Settled(st) == st \in {"success", "failed"}

\* C1: when the handler of POST /api/process is over, writer.close() has been
\* invoked exactly once, and never on a writer that was already closed.
C1_ClosedExactlyOnce ==
    \A r \in Reqs :
        /\ req[r].badClose = 0
        /\ req[r].pc = "done" => req[r].closeCalls = 1

\* C2: of the GET requests that carry one identifier, once one has returned the
\* bytes of the finished archive every later one returns 404.
C2_AtMostOneRetrieval ==
    \A j, k \in 1..Len(getLog) :
        (j < k /\ getLog[j].key = getLog[k].key /\ getLog[j].status = 200
               /\ getLog[j].body.complete)
            => getLog[k].status = 404

\* a file name of the form images-<alphanumerics>.zip
IsArtifactName(n) ==
    /\ Len(n) >= Len(ZipPrefix) + Len(ZipSuffix)
    /\ SubSeq(n, 1, Len(ZipPrefix)) = ZipPrefix
    /\ SubSeq(n, Len(n) - Len(ZipSuffix) + 1, Len(n)) = ZipSuffix
    /\ \A k \in (Len(ZipPrefix) + 1)..(Len(n) - Len(ZipSuffix)) : n[k] \in Alnum

Validated(q) == q.progressItems # <<>>

\* C4: a batch of which a row was attempted ends with every row attempted and
\* settled as "success" or "failed".
C4_EveryRowAttempted ==
    \A r \in Reqs :
        LET q == req[r] IN
        (q.pc = "done" /\ Validated(q) /\ q.i >= 1)
            => \A k \in 1..Len(q.progressItems) : Settled(q.progressItems[k].status)

Lifecycle == {<<"pending", "downloading">>, <<"downloading", "success">>,
              <<"downloading", "failed">>}
Rank(st) == CASE st = "pending" -> 0 [] st = "downloading" -> 1 [] OTHER -> 2

\* the frames of type "progress", in stream order
ProgressFrames(fs) == SelectSeq(fs, LAMBDA f : f.type = "progress")

\* a row's status does not move backwards from frame f to the later frame g
NotRetracted(f, g) ==
    \A k \in 1..Len(f.items) :
        /\ Rank(f.items[k].status) <= Rank(g.items[k].status)
        /\ Settled(f.items[k].status) => g.items[k].status = f.items[k].status

C5_Frames ==
    \A r \in Reqs :
        LET pf == ProgressFrames(req[r].frames) IN
        \A j \in 1..(Len(pf) - 1) : NotRetracted(pf[j], pf[j + 1])

C5_Step ==
    \A r \in Reqs :
        LET old == req[r].progressItems
            new == req'[r].progressItems
        IN  /\ old = <<>> => \A k \in 1..Len(new) : new[k].status = "pending"
            /\ old # <<>> =>
                 /\ Len(new) = Len(old)
                 /\ \A k \in 1..Len(old) :
                      old[k].status # new[k].status
                          => <<old[k].status, new[k].status>> \in Lifecycle

\* C5: a row starts "pending" and its status only moves pending -> downloading ->
\* (success | failed); between consecutive progress frames no status moves back.
C5_StatusLifecycle == []C5_Frames /\ [][C5_Step]_vars

\* two rows, the first settled "success" and the second "failed", all five
\* progress frames written
C5_Witness ==
    /\ Len(req[1].progressItems) = 2
    /\ req[1].progressItems[1].status = "success"
    /\ req[1].progressItems[2].status = "failed"
    /\ Len(ProgressFrames(req[1].frames)) = 5

\* C6: at most one row is "downloading"; the rows before it are settled and the
\* rows after it are "pending"; the row being attempted is the loop's row.
C6_OneRowAtATime ==
    \A r \in Reqs :
        LET items == req[r].progressItems IN
        \A k \in 1..Len(items) :
            /\ items[k].status = "downloading" =>
                 /\ k = req[r].i
                 /\ \A j \in 1..(k - 1) : Settled(items[j].status)
                 /\ \A j \in (k + 1)..Len(items) : items[j].status = "pending"
            /\ Settled(items[k].status) => \A j \in 1..(k - 1) : Settled(items[j].status)

\* the second row is "downloading" after the first row failed in its catch block
C6_Witness ==
    /\ Len(req[1].progressItems) = 2
    /\ req[1].progressItems[1].status = "failed"
    /\ req[1].progressItems[1].error \notin {"", "No images found", "Failed to download image"}
    /\ req[1].progressItems[2].status = "downloading"

\* the statuses of the latest progress frame written, <<>> when there is none
LastFramed(q) ==
    LET pf == ProgressFrames(q.frames) IN
    IF pf = <<>> THEN <<>> ELSE Statuses(pf[Len(pf)].items)

\* the statuses as they stand are on the stream, or in the write being awaited
C7_Reported ==
    \A r \in Reqs :
        LET q == req[r] IN
        (Validated(q) /\ q.pc \notin {"sendErrorCatch", "closeFinally", "done"})
            => \/ /\ q.inflight.type = "progress"
                  /\ Statuses(q.inflight.items) = Statuses(q.progressItems)
               \/ /\ q.inflight.type # "progress"
                  /\ LastFramed(q) = Statuses(q.progressItems)

C7_FirstFrame ==
    \A r \in Reqs :
        LET pf == ProgressFrames(req[r].frames) IN
        pf # <<>> =>
            /\ req[r].frames[1] = pf[1]
            /\ Len(pf[1].items) = Len(req[r].upload.data)
            /\ \A k \in 1..Len(pf[1].items) : pf[1].items[k].status = "pending"

C7_Step ==
    \A r \in Reqs :
        LET q == req[r]
            n == req'[r]
        IN  \* a status changes: the statuses it changes from are the latest framed
            /\ (Validated(q) /\ Statuses(n.progressItems) # Statuses(q.progressItems))
                  => LastFramed(n) = Statuses(q.progressItems)
            \* a terminal frame is written: the statuses as they stand are framed
            /\ (Validated(q) /\ Len(n.frames) > Len(q.frames)
                  /\ Terminal(n.frames[Len(n.frames)]))
                  => LastFramed(n) = Statuses(n.progressItems)

\* C7: the first frame is a progress frame with every row "pending"; a status
\* change is handed to the stream at once, and no further status change and no
\* complete or error frame comes before the frame that carries it.
C7_EveryTransitionFramed == [](C7_Reported /\ C7_FirstFrame) /\ [][C7_Step]_vars

\* a row failed in its catch block, the frame saying so is written, and the next
\* row has started
C7_Witness ==
    /\ Len(req[1].progressItems) = 2
    /\ req[1].progressItems[1].error = "ENOSPC"
    /\ req[1].progressItems[2].status = "downloading"
    /\ LastFramed(req[1]) = <<"failed", "pending">>

ReachedArchive(q) == q.fileId # <<>>

\* C8: a run that reaches archive construction has written at least N+1 progress
\* frames, and every progress frame has N items with the ids and image_names of
\* the input rows, in input order.
C8_FrameShape ==
    \A r \in Reqs :
        LET q == req[r]
            data == q.upload.data
            pf == ProgressFrames(q.frames)
        IN  /\ ReachedArchive(q) => Len(pf) >= Len(data) + 1
            /\ \A j \in 1..Len(pf) :
                 /\ Len(pf[j].items) = Len(data)
                 /\ \A k \in 1..Len(data) :
                      /\ pf[j].items[k].id = String(data[k].id)
                      /\ pf[j].items[k].image_name = String(data[k].image_name)

\* two rows with different ids, one a number and one a string, reached the archive
C8_Witness ==
    /\ ReachedArchive(req[1])
    /\ Len(req[1].upload.data) = 2
    /\ req[1].progressItems[1].id = <<"1">>
    /\ req[1].progressItems[2].id = <<"b">>
    /\ Len(ProgressFrames(req[1].frames)) >= 3

\* C9: a stream holds at most one complete or error frame, and it is the last frame.
C9_OneTerminalFrame ==
    \A r \in Reqs :
        \A j \in 1..Len(req[r].frames) :
            Terminal(req[r].frames[j]) => j = Len(req[r].frames)

\* the complete frame is written and the removal of the working directory failed
C9_Witness ==
    /\ req[1].pc = "done"
    /\ Count(req[1].frames, "complete") = 1
    /\ req[1].tempDir \in dirs

\* the request body fails ingestion: no file, no rows, or a first row without
\* "id" or without "image_name"
IngestionFails(up) ==
    \/ up.kind = "nofile"
    \/ /\ up.kind = "table"
       /\ \/ Len(up.data) = 0
          \/ up.data[1].id.t = "absent"
          \/ up.data[1].image_name.t = "absent"

\* nothing was attempted and nothing was created
C10_Untouched(q) ==
    /\ Count(q.frames, "progress") = 0
    /\ Count(q.frames, "complete") = 0
    /\ Count(q.frames, "error") <= 1
    /\ q.inflight.type \in {"none", "error"}
    /\ q.nSearch = 0 /\ q.nFetch = 0
    /\ q.tempDir = NoPath /\ q.fileId = <<>>
    /\ dirs = {TmpDir} /\ DOMAIN files = {}

\* C10 as stated: a request that fails ingestion ends with exactly one error frame
\* on the stream, no progress frame, no row attempted, nothing created.
C10_ExactlyOneError ==
    \A r \in Reqs :
        (IngestionFails(req[r].upload) /\ req[r].pc # "idle") =>
            /\ C10_Untouched(req[r])
            /\ req[r].pc = "done" => Count(req[r].frames, "error") = 1

\* C10 amended: the error frame is on the stream when the client is still
\* connected at the time it is written, and at most once otherwise.
C10_IngestionFailure ==
    \A r \in Reqs :
        (IngestionFails(req[r].upload) /\ req[r].pc # "idle") =>
            /\ C10_Untouched(req[r])
            /\ (req[r].pc = "done" /\ req[r].writer # "errored")
                  => /\ Len(req[r].frames) = 1
                     /\ req[r].frames[1].type = "error"

\* a table whose first row lacks "image_name" ended with its one error frame
C10_Witness ==
    /\ req[1].pc = "done"
    /\ req[1].upload.kind = "table"
    /\ Len(req[1].upload.data) = 2
    /\ req[1].upload.data[1].image_name.t = "absent"
    /\ Count(req[1].frames, "error") = 1

\* ------------------------------------------- the working directory's files
\* the extensions a stored image can get (lines 96-106)
FixedExtensions ==
    { <<".", "j", "p", "g">>, <<".", "p", "n", "g">>,
      <<".", "g", "i", "f">>, <<".", "w", "e", "b", "p">> }

\* the names fs.readdirSync(tempDir) returned that are <id><extension>
FilesOf(q, id) == {e \in q.entries : \E ext \in FixedExtensions : e = id \o ext}

Succeeded(q) == {k \in 1..Len(q.progressItems) : q.progressItems[k].status = "success"}
Failed(q) == {k \in 1..Len(q.progressItems) : q.progressItems[k].status = "failed"}

\* archive construction has just read the working directory (line 249)
ReadsWorkDir(q) == q.pc = "archive"

\* C11: when archive construction reads the working directory, it holds
\* exactly one file <id><extension> for every row whose status is 'success',
\* rows that share an id included.
C11_ExactlyOneFile ==
    \A r \in Reqs :
      ReadsWorkDir(req[r]) =>
        \A k \in Succeeded(req[r]) :
          Cardinality(FilesOf(req[r], req[r].progressItems[k].id)) = 1

\* C12: when archive construction reads the working directory, it holds no
\* file <id><extension> for any row whose status is 'failed'.
C12_NoFileForFailed ==
    \A r \in Reqs :
      ReadsWorkDir(req[r]) =>
        \A k \in Failed(req[r]) :
          FilesOf(req[r], req[r].progressItems[k].id) = {}

\* C13: the archive gets as many entries as there are rows whose final
\* status is 'success'.
C13_EntriesMatchSuccesses ==
    \A r \in Reqs :
      ReadsWorkDir(req[r]) =>
        Cardinality(req[r].entries) = Cardinality(Succeeded(req[r]))

\* ------------------------------------------------- the working directory
\* the request made its working directory (line 184 returned)
MadeWorkDir(q) == q.tempDir # NoPath

\* the request's stream was closed with every frame delivered
ClosedCleanly(q) == q.pc = "done" /\ q.writer = "closed" /\ ~q.unhandled

\* C14: a request that made a working directory has called fs.rmSync on it
\* by the time its stream is closed, whichever way the handler left the try
\* block (here: for the requests whose client stayed connected).
C14_WorkDirRemoved ==
    \A r \in Reqs :
      (MadeWorkDir(req[r]) /\ ClosedCleanly(req[r])) => req[r].rmTried

\* ------------------------------------------------ two requests in flight
\* Date.now() (lines 183, 236) reads a clock that moves between two steps, or
\* does not: a millisecond is long enough for several handlers to resume
Tick ==
    /\ now % PauseMs < MaxTicks
    /\ now' = now + 1
    /\ UNCHANGED <<req, platform, dirs, files, getLog, lastGet>>

InitTwo ==
    /\ \E up \in {NoUpload} \cup {[kind |-> "table", data |-> d] : d \in SmallTables} :
         req = [r \in Reqs |->
                  InitReq(IF r = 1 THEN [kind |-> "table", data |-> <<RowOne>>] ELSE up)]
    /\ platform = "posix"
    /\ now = 0
    /\ dirs = {TmpDir}
    /\ files = <<>>
    /\ getLog = <<>>
    /\ lastGet = NoGet

NextTwo == Step(1) \/ Step(2) \/ Tick

SpecTwo == InitTwo /\ [][NextTwo]_vars

InFlight(q) == q.pc \notin {"idle", "done"}

\* C15: two requests in flight at the same time never have the same working
\* directory, whatever the clock read when each one made its own.
C15_DistinctWorkDirs ==
    \A r1, r2 \in Reqs :
      (/\ r1 # r2
       /\ InFlight(req[r1]) /\ MadeWorkDir(req[r1])
       /\ InFlight(req[r2]) /\ MadeWorkDir(req[r2]))
      => req[r1].tempDir # req[r2].tempDir

\* C16: two requests that reach archive construction get different artifact
\* identifiers, hence different artifact files and different handles.
C16_DistinctArtifacts ==
    \A r1, r2 \in Reqs :
      (r1 # r2 /\ ReachedArchive(req[r1]) /\ ReachedArchive(req[r2]))
      => /\ req[r1].fileId # req[r2].fileId
         /\ req[r1].finalZipPath # req[r2].finalZipPath

\* ----------------------------------------------------- the GET's answers
\* the answer to the latest GET, and what the request carried
LastAnswer == getLog[Len(getLog)]
HasId(g) == g.param \notin {"absent", "empty"}

\* C17 as stated: the latest GET was answered 400 exactly when its
\* identifier parameter was absent.
C17_BadRequestIffAbsent ==
    getLog # <<>> => (LastAnswer.status = 400 <=> lastGet.param = "absent")

\* the file the GET looked for: images-<sanitized identifier>.zip
Sought(e, g) == {p \in g.tested : Base(p) = ZipPrefix \o e.key \o ZipSuffix}

\* a GET's answer follows from its parameter and the files of the moment
C17_Step ==
    getLog' # getLog =>
      LET e == getLog'[Len(getLog')]
          g == lastGet'
          there == Sought(e, g) \cap DOMAIN files
      IN
      /\ e.status \in {200, 400, 404}
      /\ e.status = 400 <=> ~HasId(g)
      /\ HasId(g) => (Sought(e, g) = g.tested /\ Cardinality(g.tested) = 1)
      /\ e.status = 404 <=> (HasId(g) /\ there = {})
      /\ e.status = 200 <=> (HasId(g) /\ there # {})
      /\ e.status = 200 => (g.read = there /\ \A p \in there : e.body = files[p])
      /\ e.status \in {400, 404} =>
           (e.body = NoBody /\ g.read = {} /\ g.deleted = {} /\ files' = files)

\* C17 (amended): a GET is answered 400 exactly when the identifier parameter
\* is absent or empty, 404 when it has a value and no artifact file matches
\* the sanitized value, and the file's bytes otherwise; a GET answered 400 or
\* 404 reads and deletes no file.
C17_GetAnswers == [][C17_Step]_vars

\* an archive was served, and then a GET with an empty identifier got 400
C17_Witness ==
    /\ Len(getLog) = 2
    /\ getLog[1].status = 200
    /\ getLog[2].status = 400
    /\ lastGet.param = "empty"

\* ------------------------------------------------- a client that goes away
\* the client went away while the handler was running
Disconnected(q) == q.writer = "errored"

\* C18: a request whose client disconnected after the working directory was
\* made still attempts every row and reaches archive construction.
C18_DisconnectIgnored ==
    \A r \in Reqs :
      (req[r].pc = "done" /\ MadeWorkDir(req[r]) /\ Disconnected(req[r]))
      => /\ \A k \in 1..Len(req[r].progressItems) :
              Settled(req[r].progressItems[k].status)
         /\ ReachedArchive(req[r])

\* ------------------------------------------------------ the inter-row pause
\* C19: the pause has been waited out once for every row attempted so far:
\* k - 1 times when row k is 'downloading', once per row when archive
\* construction begins.
C19_PauseAfterEveryRow ==
    \A r \in Reqs :
      /\ \A k \in 1..Len(req[r].progressItems) :
           req[r].progressItems[k].status = "downloading" => req[r].nPause = k - 1
      /\ ReachedArchive(req[r]) => req[r].nPause = Len(req[r].progressItems)

\* ------------------------------------------------- the candidates of a row
\* the messages of the errors fs.writeFileSync throws
WriteErrors == {"ENOSPC", "EACCES", "ENOENT"}

\* the row's fetches are done and its closing frame is being written, or the
\* pause is running
RowFetched(q) == q.pc \in {"sendResult", "pause"} /\ q.fetched # <<>>

\* the last candidate fetched yielded a viable asset
LastViable(q) == q.viable # <<>> /\ q.viable[Len(q.viable)]

\* the file <id><extension> of the current row holds the asset of candidate url
Stored(q, url) ==
    \E ext \in FixedExtensions :
      LET p == Join(platform, q.tempDir, q.progressItems[q.i].id \o ext) IN
      p \in DOMAIN files /\ files[p] = Image(url)

\* C20 as stated: a row one of whose candidates yielded a viable asset
\* becomes 'success' with that asset written to <id><extension>.
C20_FirstViableSucceeds ==
    \A r \in Reqs :
      (RowFetched(req[r]) /\ LastViable(req[r]))
      => /\ req[r].progressItems[req[r].i].status = "success"
         /\ Stored(req[r], req[r].fetched[Len(req[r].fetched)])

\* the candidates fetched are a prefix of the resolver's list, in its order
C20_InOrder(q) ==
    /\ Len(q.fetched) <= Len(q.imageUrls)
    /\ q.fetched = SubSeq(q.imageUrls, 1, Len(q.fetched))
    /\ Len(q.viable) <= Len(q.fetched)
    /\ Len(q.fetched) <= Len(q.viable) + 1

\* no candidate is fetched after one has yielded a viable asset
C20_NoneAfterViable(q) ==
    \A j \in 1..Len(q.viable) : q.viable[j] => j = Len(q.fetched)

C20_Outcome(q) ==
    RowFetched(q) =>
      LET item == q.progressItems[q.i] IN
      /\ Len(q.viable) = Len(q.fetched)
      /\ item.status = "success" =>
           (LastViable(q) /\ Stored(q, q.fetched[Len(q.fetched)]))
      /\ (LastViable(q) /\ item.status # "success") =>
           (item.status = "failed" /\ item.error \in WriteErrors)
      /\ ~LastViable(q) =>
           /\ q.fetched = q.imageUrls
           /\ item.status = "failed"
           /\ item.error = "Failed to download image"

\* C20 (amended): the candidates are fetched in the resolver's order, none is
\* fetched after one yielded a viable asset, and that asset is the one
\* written to <id><extension>: the row becomes 'success' when the write
\* succeeds and 'failed' with the write's error when it throws.
C20_FirstViableWins ==
    \A r \in Reqs :
      C20_InOrder(req[r]) /\ C20_NoneAfterViable(req[r]) /\ C20_Outcome(req[r])

\* the first candidate yielded nothing viable, the second was written
C20_Witness ==
    /\ RowFetched(req[1])
    /\ req[1].viable = <<FALSE, TRUE>>
    /\ req[1].progressItems[req[1].i].status = "success"
    /\ Stored(req[1], req[1].imageUrls[2])

\* ------------------------------------------------------- a row's failure
\* the row the loop is at, once it has ended 'failed'
RowFailed(q) ==
    /\ q.i >= 1 /\ q.i <= Len(q.progressItems)
    /\ q.progressItems[q.i].status = "failed"

\* every candidate of the row was fetched and none yielded a viable asset
Exhausted(q) ==
    /\ q.hits > 0
    /\ q.fetched = q.imageUrls
    /\ Len(q.viable) = Len(q.fetched)
    /\ \A j \in 1..Len(q.viable) : ~q.viable[j]

\* C21: a row whose search returned no candidate ends 'failed' with cause
\* "No images found" and nothing fetched for it; a row whose candidates were
\* all fetched without a viable asset ends 'failed' with cause "Failed to
\* download image".
C21_FailureCauses ==
    \A r \in Reqs :
      RowFailed(req[r]) =>
        /\ req[r].hits = 0 =>
             (/\ req[r].progressItems[req[r].i].error = "No images found"
              /\ req[r].fetched = <<>>)
        /\ Exhausted(req[r]) =>
             req[r].progressItems[req[r].i].error = "Failed to download image"

\* ---------------------------------------------------- the 'complete' frame
\* sendComplete was called: its frame is being written or is on the stream
CompleteEmitted(q) ==
    \/ q.inflight.type = "complete"
    \/ \E k \in 1..Len(q.frames) : q.frames[k].type = "complete"

\* the archive file holds every entry handed to the archiver, and is closed
ArchiveWritten(q) ==
    /\ q.finalZipPath \in DOMAIN files
    /\ files[q.finalZipPath] = Zip(q.entries, TRUE)

\* C22: a 'complete' frame is emitted only when each of the N rows is
\* 'success' or 'failed' and the archive has been fully written.
C22_CompleteAfterAll ==
    \A r \in Reqs :
      CompleteEmitted(req[r]) =>
        /\ req[r].progressItems # <<>>
        /\ \A k \in 1..Len(req[r].progressItems) :
             Settled(req[r].progressItems[k].status)
        /\ ArchiveWritten(req[r])

\* a 'complete' frame is on the stream of a batch of two rows, one of which
\* succeeded and one of which failed
C22_Witness ==
    /\ \E k \in 1..Len(req[1].frames) : req[1].frames[k].type = "complete"
    /\ Len(req[1].progressItems) = 2
    /\ req[1].progressItems[1].status = "success"
    /\ req[1].progressItems[2].status = "failed"

\* ------------------------------------------- an error of the output stream
\* the output stream reported an error while the archive was being built
OutputFailed(q) == q.pc = "stalled"

\* C23: a request whose archive output stream reported an error has an
\* 'error' frame and no 'complete' frame on its stream, and its stream is
\* closed.
C23_OutputErrorReported ==
    \A r \in Reqs :
      OutputFailed(req[r]) =>
        /\ Count(req[r].frames, "error") = 1
        /\ Count(req[r].frames, "complete") = 0
        /\ req[r].closeCalls >= 1

\* ------------------------------------------------- a request runs to its end
\* one request whose client stays connected; every await that can settle
\* does settle: the handler is resumed whenever it can be
NextLive == Step(1)

SpecLive == Init /\ [][NextLive]_vars /\ WF_vars(Step(1))

\* a terminal frame is on the stream and the handler has closed the stream
Ended(q) ==
    /\ q.pc = "done"
    /\ \E k \in 1..Len(q.frames) : Terminal(q.frames[k])

\* C24: a request that was started eventually has a terminal frame on its
\* stream and has closed the stream.
C24_EventuallyEnded == (req[1].pc # "idle") ~> Ended(req[1])

\* ------------------------------------------------ row ids that name paths
\* one-row tables whose id holds a separator and a dot segment
PathIds == { <<".", ".", "/", "x">>, <<".", ".", "\\", "x">>, <<"a", "/", "b">> }
PathTables == { <<[id |-> Str(id), image_name |-> Str(<<"c">>)]>> : id \in PathIds }

InitPath ==
    /\ \E up \in {NoUpload} \cup {[kind |-> "table", data |-> d] : d \in PathTables} :
         req = [r \in Reqs |-> InitReq(IF r = 1 THEN up ELSE NoUpload)]
    /\ platform \in {"posix", "win32"}
    /\ now = 0
    /\ dirs = {TmpDir}
    /\ files = <<>>
    /\ getLog = <<>>
    /\ lastGet = NoGet

NextPath == Step(1)

SpecPath == InitPath /\ [][NextPath]_vars

\* C25: every image file on disk is a direct child of the working directory
\* of the request that wrote it, whatever the row's id.
C25_RowFilesConfined ==
    \A p \in DOMAIN files :
      files[p].kind = "img" => Parent(p) = req[1].tempDir

\* ------------------------------------- a GET while the archive is written
\* C26: every archive a GET returned was fully written, and no run ends with
\* "Failed to create ZIP file" because a GET removed its archive.
C26_NoEarlyRetrieval ==
    /\ \A k \in 1..Len(getLog) :
         getLog[k].status = 200 => getLog[k].body.complete
    /\ \A r \in Reqs : \A k \in 1..Len(req[r].frames) :
         req[r].frames[k].message # "Failed to create ZIP file"

====
